---- MODULE Spec2Model ----
(***************************************************************************)
(* Model of the moviePlayer kiosk launcher (player/src/main.rs): the main  *)
(* loop, the selection screen `app`, and `play_movies_from_index`.         *)
(*                                                                         *)
(* Indices (selected, start_index, character_index) are 0-based as in the  *)
(* Rust source; TLA+ sequences are 1-based, so movies[i] of the source is  *)
(* At(movies, i) here.  Option<T> is a sequence of length 0 (None) or 1    *)
(* (Some).  Time is counted in milliseconds.                               *)
(***************************************************************************)
EXTENDS Integers, Sequences, FiniteSets, TLC

\* ---------------------------------------------------------------- bounds
MaxMovies == 3
MaxInput == 1
MaxFiles == 3

\* ------------------------------------------------------ program constants
TIMEOUT_SECONDS == 30
PollQuantumMs == 100
PanicExitCode == 101
ErrExitCode == 1
NumCandidates == 3
TimeoutMs == TIMEOUT_SECONDS * 1000

VARIABLES
    pc,               \* control position of the process
    exit_status,      \* Option: process exit code once it has terminated
    movies,           \* the catalog returned by load_movies
    AUTO_PLAY_NEXT,   \* static AtomicBool
    SHUFFLE_QUEUE,    \* static AtomicBool
    selected_index,   \* RefCell<Option<usize>> of main
    should_exit,      \* RefCell<bool> of main
    selected,         \* AppState.selected
    show_popup,       \* AppState.show_popup
    user_input,       \* AppState.user_input, a sequence of characters
    character_index,  \* AppState.character_index
    elapsed,          \* last_input_time.elapsed() at the top of the app loop
    start_index,      \* argument of play_movies_from_index
    shuffle,          \* argument shuffle_order of play_movies_from_index
    movies_to_play,   \* the queue built by play_movies_from_index
    pos,              \* 1-based position of the for loop in movies_to_play
    played,           \* history: entries handed to the player in this playback
    codes,            \* history: exit codes the player returned for them
    sincePress,       \* history: ms since the last key press / session start
    decision,         \* history: how the last selection session ended
    userShuffle,      \* history (ToggleSpec): the shuffle toggle as the
                      \* user's presses set it
    root,             \* what ../movies is: a directory, missing, ...
    tree,             \* the files below ../movies, each a path of names
    scan,             \* Option: what load_movies returned in this run
    rescan,           \* Option: what it returned in a second run (ScanSpec)
    info_map,         \* HashMap<PathBuf, MovieInfo> built by load_movies: a
                      \* function from the keys it holds
    probe_of,         \* what ffprobe / fs::metadata answer for each entry
    movie_info_cache, \* AppState.movie_info_cache
    probes,           \* history: the entries get_movie_info was called
                      \* for in this session, in order
    shown,            \* history: Option, the MovieInfo render displayed last
    notified          \* history: outcome of the last watch notification

vars == << pc, exit_status, movies, AUTO_PLAY_NEXT, SHUFFLE_QUEUE,
           selected_index, should_exit, selected, show_popup, user_input,
           character_index, elapsed, start_index, shuffle, movies_to_play,
           pos, played, codes, sincePress, decision, userShuffle,
           root, tree, scan, rescan, info_map, probe_of, movie_info_cache,
           probes, shown, notified >>

appVars == << selected, show_popup, user_input, character_index >>
playVars == << start_index, shuffle, movies_to_play, pos, played, codes >>
scanVars == << root, tree, scan, rescan >>
infoVars == << info_map, probe_of, movie_info_cache, probes, shown >>

\* ------------------------------------------------------------- utilities
None == << >>
Some(x) == << x >>
unwrap_or(opt, d) == IF opt = None THEN d ELSE opt[1]

At(s, i) == s[i + 1]

Min(a, b) == IF a < b THEN a ELSE b

\* All orders in which a Vec holding the elements of S can come out of
\* SliceRandom::shuffle.
Perms(S) ==
    { p \in [1..Cardinality(S) -> S] :
        \A i, j \in 1..Cardinality(S) : i # j => p[i] # p[j] }

\* ---------------------------------------------------------------- inputs
Entry(k) == 100 + k
Catalog(n) == [k \in 1..n |-> Entry(k)]

KeyChars == {"n", "s", " ", "e_acute"}
SpecialKeys == {"Esc", "Up", "Down", "Enter", "Backspace",
                "Left", "Right", "Home", "End", "Tab"}
Keys == {<<c, "">> : c \in SpecialKeys} \cup {<<"Char", ch>> : ch \in KeyChars}

\* Some(code) of a player that exited, None for one killed by a signal.
ExitStatuses == {Some(0), Some(1), None}

\* ------------------------------------------------- overlay text (String)
\* UTF-8 length of a character.
Width(ch) == IF ch = "e_acute" THEN 2 ELSE 1

RECURSIVE ByteLen(_)
ByteLen(s) == IF s = << >> THEN 0 ELSE Width(Head(s)) + ByteLen(Tail(s))

is_char_boundary(s, idx) ==
    \E k \in 0..Len(s) : ByteLen(SubSeq(s, 1, k)) = idx

\* String::insert(idx, ch) for idx on a character boundary: idx is a BYTE
\* offset.
StringInsert(s, idx, ch) ==
    LET k == CHOOSE k \in 0..Len(s) : ByteLen(SubSeq(s, 1, k)) = idx
    IN  SubSeq(s, 1, k) \o <<ch>> \o SubSeq(s, k + 1, Len(s))

clamp_cursor(s, new_cursor_pos) ==
    IF new_cursor_pos < 0 THEN 0
    ELSE IF new_cursor_pos > Len(s) THEN Len(s)
    ELSE new_cursor_pos

\* saturating_sub(1) then clamp
move_cursor_left(s, ci) == clamp_cursor(s, IF ci = 0 THEN 0 ELSE ci - 1)

\* Variant: no clamp to the length of the text.
move_cursor_right_NoClamp(s, ci) == ci + 1

move_cursor_right(s, ci) == clamp_cursor(s, ci + 1)

\* Variant: the character after the cursor is removed.
delete_char_text_Forward(s, ci) ==
    IF ci # 0
    THEN SubSeq(s, 1, ci) \o SubSeq(s, ci + 2, Len(s))
    ELSE s

\* delete_char: the new text
delete_char_text(s, ci) ==
    IF ci # 0
    THEN SubSeq(s, 1, ci - 1) \o SubSeq(s, ci + 1, Len(s))
    ELSE s

\* delete_char: the new cursor (move_cursor_left runs on the new text)
delete_char_index(s, ci) ==
    IF ci # 0 THEN move_cursor_left(delete_char_text(s, ci), ci) ELSE ci

\* Variant: the cursor is left where it was.
reset_cursor_Keep(ci) == ci

\* reset_cursor: the new cursor
reset_cursor(ci) == 0

\* Variant: the text is not cleared.
clear_input_text_Keep(s) == s

\* clear_input: the new text (the cursor goes through reset_cursor)
clear_input_text(s) == << >>

\* fetch_xor(true) on AUTO_PLAY_NEXT: the new (autoplay, shuffle) flags
toggle_auto_play_next(auto, sh) == << ~auto, sh >>

\* Variant: both flags are flipped.
toggle_shuffle_queue_Both(auto, sh) == << ~auto, ~sh >>

\* fetch_xor(true) on SHUFFLE_QUEUE: the new (autoplay, shuffle) flags
toggle_shuffle_queue(auto, sh) == << auto, ~sh >>

\* ----------------------------------------------------------- queue builder
\* Variant: the wrapped-around part is left out.
Rotated_NoWrap(m, start) ==
    SubSeq(m, start + 1, Len(m))

Rotated(m, start) ==
    SubSeq(m, start + 1, Len(m)) \o SubSeq(m, 1, start)

ShuffledAll(m) ==
    { [k \in 1..Len(m) |-> At(m, p[k])] : p \in Perms(0..(Len(m) - 1)) }

\* Variant: the selected entry is shuffled with the others.
ShuffledPinned_Unpinned(m, start) == ShuffledAll(m)

ShuffledPinned(m, start) ==
    { <<At(m, start)>> \o [k \in 1..(Len(m) - 1) |-> At(m, p[k])] :
        p \in Perms((0..(Len(m) - 1)) \ {start}) }

\* The queues play_movies_from_index can build (one per outcome of the rng).
Queues(m, start, shuffle_order) ==
    IF shuffle_order
    THEN IF start >= Len(m) THEN ShuffledAll(m) ELSE ShuffledPinned(m, start)
    ELSE {Rotated(m, start)}

\* ------------------------------------------------- file names and paths
\* A name is the sequence of its bytes (ASCII); a path is the sequence of
\* names below ../movies, so << >> is ../movies itself.  `tree` holds the
\* paths of the files; every proper prefix of one is a directory.
VIDEO_EXTENSIONS ==
    { <<109, 112, 52>>,          \* "mp4"
      <<109, 107, 118>>,         \* "mkv"
      <<97, 118, 105>>,          \* "avi"
      <<109, 111, 118>>,         \* "mov"
      <<119, 101, 98, 109>>,     \* "webm"
      <<109, 52, 118>> }         \* "m4v"

ROOT_GROUP == <<82, 111, 111, 116>>      \* "Root"
APPLEDOUBLE_PREFIX == <<46, 95>>         \* "._"

Name_m_mp4 == <<109, 46, 109, 112, 52>>             \* "m.mp4"
Name_b_MKV == <<98, 46, 77, 75, 86>>                \* "b.MKV"
Name_n_txt == <<110, 46, 116, 120, 116>>            \* "n.txt"
Name_k_avi == <<107, 46, 97, 118, 105>>             \* "k.avi"
Name_dot_m_mp4 == <<46, 95, 109, 46, 109, 112, 52>> \* "._m.mp4"
Name_dot_d == <<46, 95, 100>>                       \* "._d"
Name_a == <<97>>                                    \* "a"
Name_b == <<98>>                                    \* "b"
Name_x == <<120>>                                   \* "x"

\* The files a tree under ../movies is drawn from.
FileUniverse ==
    { <<Name_m_mp4>>,
      <<Name_b_MKV>>,
      <<Name_n_txt>>,
      <<Name_dot_m_mp4>>,
      <<Name_dot_d, Name_m_mp4>>,
      <<Name_a, Name_k_avi>>,
      <<Name_a, Name_x, Name_m_mp4>>,
      <<Name_b, Name_x, Name_m_mp4>> }

Trees == { t \in SUBSET FileUniverse : Cardinality(t) <= MaxFiles }

RootKinds == {"dir", "missing", "file", "unreadable"}

\* Path::file_name and Path::parent
file_name(path) == path[Len(path)]
parent(path) == SubSeq(path, 1, Len(path) - 1)

\* str::to_lowercase on ASCII
to_lowercase(s) ==
    [i \in 1..Len(s) |-> IF s[i] \in 65..90 THEN s[i] + 32 ELSE s[i]]

starts_with(s, prefix) ==
    Len(s) >= Len(prefix) /\ SubSeq(s, 1, Len(prefix)) = prefix

\* Path::extension: what follows the last '.', unless there is no '.' or
\* the only one is the first byte of the name.
extension(path) ==
    LET name == file_name(path)
        dots == { i \in 1..Len(name) : name[i] = 46 }
        last == CHOOSE i \in dots : \A j \in dots : j <= i
    IN  IF dots = {} THEN None
        ELSE IF last = 1 THEN None
        ELSE Some(SubSeq(name, last + 1, Len(name)))

\* Variant: the extension is compared as it is written.
is_video_CaseSensitive(path) ==
    /\ extension(path) # None
    /\ extension(path)[1] \in VIDEO_EXTENSIONS

is_video(path) ==
    /\ extension(path) # None
    /\ to_lowercase(extension(path)[1]) \in VIDEO_EXTENSIONS

\* Ord for str: bytewise lexicographic order.
RECURSIVE StrLeq(_, _)
StrLeq(a, b) ==
    IF Len(a) = 0 THEN TRUE
    ELSE IF Len(b) = 0 THEN FALSE
    ELSE IF a[1] # b[1] THEN a[1] < b[1]
    ELSE StrLeq(Tail(a), Tail(b))

RECURSIVE Flatten(_)
Flatten(ss) ==
    IF Len(ss) = 0 THEN << >> ELSE Head(ss) \o Flatten(Tail(ss))

\* ------------------------------------------------------------ the scanner
is_file(t, path) == path \in t

is_dir(t, path) ==
    \E f \in t : Len(f) > Len(path) /\ SubSeq(f, 1, Len(path)) = path

\* fs::read_dir(dir): the entries of dir; their order is the file system's.
read_dir(t, dir) ==
    { SubSeq(f, 1, Len(dir) + 1) :
        f \in { g \in t : Len(g) > Len(dir) /\ SubSeq(g, 1, Len(dir)) = dir } }

\* collect_movies(dir, ..): every sequence of paths it can push, one for
\* each order in which read_dir can enumerate dir and the directories
\* below it.
RECURSIVE collect_movies(_, _)
collect_movies(t, dir) ==
    LET entries == read_dir(t, dir)
        Pushed(path) ==
            IF is_file(t, path) /\ is_video(path)
            THEN IF starts_with(file_name(path), APPLEDOUBLE_PREFIX)
                 THEN { << >> }
                 ELSE { << path >> }
            ELSE IF is_dir(t, path)
                 THEN collect_movies(t, path)
                 ELSE { << >> }
        All == UNION { Pushed(c) : c \in entries }
        Parts == { f \in [entries -> All] : \A c \in entries : f[c] \in Pushed(c) }
    IN  { Flatten([k \in 1..Len(order) |-> part[order[k]]]) :
            order \in Perms(entries), part \in Parts }

group_name(path) ==
    IF parent(path) = << >> THEN ROOT_GROUP ELSE file_name(parent(path))

MovieEntry(path) == [path |-> path, group_name |-> group_name(path)]

\* group_names.sort(), then "Root" moved to the front
sorted_group_names(names) ==
    LET sorted == CHOOSE q \in Perms(names) :
                      \A i, j \in 1..Len(q) : i < j => StrLeq(q[i], q[j])
    IN  IF ROOT_GROUP \in names
        THEN << ROOT_GROUP >> \o SelectSeq(sorted, LAMBDA g : g # ROOT_GROUP)
        ELSE sorted

\* group_movies.sort_by(file_name): a stable sort, entries with equal file
\* names keep the order in which they were pushed.
RECURSIVE sort_by_file_name(_)
sort_by_file_name(group) ==
    IF Len(group) <= 1 THEN group
    ELSE LET front == sort_by_file_name(SubSeq(group, 1, Len(group) - 1))
             x == group[Len(group)]
             k == Cardinality({ i \in 1..Len(front) :
                      StrLeq(file_name(front[i].path), file_name(x.path)) })
         IN  SubSeq(front, 1, k) \o << x >> \o SubSeq(front, k + 1, Len(front))

\* load_movies after collect_movies: group by group_name, order the groups,
\* sort each group, concatenate.
grouped_and_sorted(pushed) ==
    LET collected == [k \in 1..Len(pushed) |-> MovieEntry(pushed[k])]
        names == { collected[k].group_name : k \in 1..Len(collected) }
        group_names == sorted_group_names(names)
        group(g) == SelectSeq(collected, LAMBDA e : e.group_name = g)
    IN  Flatten([k \in 1..Len(group_names) |->
                    sort_by_file_name(group(group_names[k]))])

\* The results load_movies can return for ../movies of kind rt holding the
\* files t.  Path::is_dir is false for a missing path and for a file, and
\* then nothing is collected; read_dir of an unreadable directory is an Err
\* that `?` hands to the caller.
load_movies(rt, t) ==
    IF rt = "unreadable" THEN { [ok |-> FALSE, movies |-> << >>] }
    ELSE IF rt # "dir" THEN { [ok |-> TRUE, movies |-> << >>] }
    ELSE { [ok |-> TRUE, movies |-> grouped_and_sorted(w)] :
             w \in collect_movies(t, << >>) }

ScanIdle ==
    /\ root = "dir"
    /\ tree = {}
    /\ scan = None
    /\ rescan = None

\* ------------------------------------------------------------- MovieInfo
\* title stands for every field that only the remote record carries (title,
\* year, genre, director, plot, rating, watch_count).
MovieInfo(title, runtime, file_size, codec, resolution) ==
    [title |-> title, runtime |-> runtime, file_size |-> file_size,
     codec |-> codec, resolution |-> resolution]

\* The records load_movies builds from the answer of GET /movies/.
RemoteInfos ==
    { MovieInfo(Some("T"), r, None, None, None) : r \in {None, Some("R")} }

\* What the probe of one file can come to: ffprobe succeeds and its JSON has
\* every field, or ffprobe fails and fs::metadata works, or both fail.
ProbeOutcomes ==
    { [success |-> TRUE, duration |-> Some("P"), size |-> Some("S"),
       codec_name |-> Some("C"), width_height |-> Some("WxH"),
       metadata_len |-> Some("S")],
      [success |-> FALSE, duration |-> None, size |-> None,
       codec_name |-> None, width_height |-> None,
       metadata_len |-> Some("S")],
      [success |-> FALSE, duration |-> None, size |-> None,
       codec_name |-> None, width_height |-> None,
       metadata_len |-> None] }

get_movie_info(o) ==
    IF o.success
    THEN MovieInfo(None, o.duration, o.size, o.codec_name, o.width_height)
    ELSE MovieInfo(None, None, o.metadata_len, None, None)

Entries(m) == { m[k] : k \in 1..Len(m) }

\* The maps load_movies can build for the catalog m: the remote service has
\* a record for some of the entries.
InfoMaps(m) == UNION { [D -> RemoteInfos] : D \in SUBSET Entries(m) }

\* The remote service is not reachable and nothing is displayed.
InfoIdle ==
    /\ info_map = << >>
    /\ probe_of = << >>
    /\ movie_info_cache = << >>
    /\ probes = << >>
    /\ shown = None

\* ------------------------------------------------------------------ Init
Init ==
    /\ movies \in {Catalog(n) : n \in 0..MaxMovies}
    /\ pc = "start"
    /\ exit_status = None
    /\ AUTO_PLAY_NEXT = TRUE
    /\ SHUFFLE_QUEUE = FALSE
    /\ selected_index = None
    /\ should_exit = FALSE
    /\ selected = 0
    /\ show_popup = FALSE
    /\ user_input = << >>
    /\ character_index = 0
    /\ elapsed = 0
    /\ start_index = 0
    /\ shuffle = FALSE
    /\ movies_to_play = << >>
    /\ pos = 1
    /\ played = << >>
    /\ codes = << >>
    /\ sincePress = 0
    /\ decision = "none"
    /\ userShuffle = FALSE
    /\ ScanIdle
    /\ InfoIdle
    /\ notified = "none"

\* --------------------------------------------------------------- main
\* Variant: the catalog is not checked for emptiness.
MainStart_NoEmptyCheck ==
    /\ UNCHANGED << userShuffle, scanVars, infoVars, notified >>
    /\ pc = "start"
    /\ pc' = "run_app"
    /\ UNCHANGED << exit_status, movies, AUTO_PLAY_NEXT, SHUFFLE_QUEUE,
                    selected_index, should_exit, appVars, elapsed, playVars,
                    sincePress, decision >>

\* main up to the loop: an empty catalog ends the process with Ok(()).
MainStart ==
    /\ UNCHANGED << userShuffle, scanVars, infoVars, notified >>
    /\ pc = "start"
    /\ IF movies = << >>
       THEN /\ pc' = "exited"
            /\ exit_status' = Some(0)
       ELSE /\ pc' = "run_app"
            /\ UNCHANGED exit_status
    /\ UNCHANGED << movies, AUTO_PLAY_NEXT, SHUFFLE_QUEUE, selected_index,
                    should_exit, appVars, elapsed, playVars, sincePress,
                    decision >>

\* app: construction of AppState and of last_input_time.  The locals of the
\* previous call of play_movies_from_index are gone by now; they and the
\* history of that playback are kept until here so that its outcome can be
\* observed.
AppStart ==
    /\ UNCHANGED << userShuffle, scanVars, info_map, probe_of >>
    /\ pc = "run_app"
    /\ pc' = "app"
    /\ movie_info_cache' = info_map
    /\ probes' = << >>
    /\ shown' = None
    /\ notified' = "none"
    /\ selected' = 0
    /\ show_popup' = FALSE
    /\ user_input' = << >>
    /\ character_index' = 0
    /\ elapsed' = 0
    /\ sincePress' = 0
    /\ decision' = "none"
    /\ start_index' = 0
    /\ shuffle' = FALSE
    /\ movies_to_play' = << >>
    /\ pos' = 1
    /\ played' = << >>
    /\ codes' = << >>
    /\ UNCHANGED << exit_status, movies, AUTO_PLAY_NEXT, SHUFFLE_QUEUE,
                    selected_index, should_exit >>

\* ----------------------------------------------------- app: the event loop
\* poll_timeout = remaining_time.min(100ms)
poll_timeout(e) == Min(TimeoutMs - e, PollQuantumMs)

\* Variant: strict comparison.
IdleExpired_Strict(e, popup) == e > TimeoutMs

\* The condition of the idle check at the top of the loop.
IdleExpired(e, popup) == e >= TimeoutMs

\* Variant: only keys bound to an action rearm the clock.
ElapsedAfterPress_BoundOnly(key, popup, e) ==
    IF key[1] = "Tab" \/ (~popup /\ key[1] \in {"Left", "Right", "Home", "End"})
    THEN e
    ELSE 0

\* last_input_time = Instant::now() on a key press: the new elapsed time.
ElapsedAfterPress(key, popup, e) == 0

\* Variant: Up from the first entry wraps to the last movie.
CursorUp_SkipRandom(sel, n) == IF sel > 0 THEN sel - 1 ELSE n - 1

\* Up / Down in the list; n is movies.len().
CursorUp(sel, n) == IF sel > 0 THEN sel - 1 ELSE n

CursorDown(sel, n) == IF sel < n THEN sel + 1 ELSE 0

\* Variant: the random slot keeps the toggle instead of forcing shuffle.
ConfirmChoices_NoForce(sel, n, shuffle_flag) ==
    IF sel = n
    THEN { <<r, shuffle_flag>> : r \in 0..(n - 1) }
    ELSE { <<sel, shuffle_flag>> }

\* Enter: the pairs (start_index, should_shuffle) the handler can produce,
\* one per outcome of gen_range.
ConfirmChoices(sel, n, shuffle_flag) ==
    IF sel = n
    THEN { <<r, TRUE>> : r \in 0..(n - 1) }
    ELSE IF shuffle_flag THEN { <<sel, TRUE>> } ELSE { <<sel, FALSE>> }

\* Variant: the range of the random index includes movies.len().
IdleChoices_Inclusive(sel, n) == 0..n

\* Idle timeout: the indices gen_range(0..movies.len()) can return.
IdleChoices(sel, n) == 0..(n - 1)

\* The idle check fired: a random entry is selected and shuffle is forced.
IdleTimeout ==
    /\ UNCHANGED << userShuffle, scanVars, infoVars, notified >>
    /\ pc = "app"
    /\ IdleExpired(elapsed, show_popup)
    /\ \E random_index \in IdleChoices(selected, Len(movies)) :
          selected_index' = Some(random_index)
    /\ SHUFFLE_QUEUE' = TRUE
    /\ pc' = "main"
    /\ decision' = "idle"
    /\ UNCHANGED << exit_status, movies, AUTO_PLAY_NEXT, should_exit, appVars,
                    elapsed, playVars, sincePress >>

\* poll(poll_timeout) returned false: no event for the whole wait.
PollTimeout ==
    /\ UNCHANGED << userShuffle, scanVars, infoVars, notified >>
    /\ pc = "app"
    /\ ~IdleExpired(elapsed, show_popup)
    /\ elapsed' = elapsed + poll_timeout(elapsed)
    /\ sincePress' = sincePress + poll_timeout(elapsed)
    /\ UNCHANGED << pc, exit_status, movies, AUTO_PLAY_NEXT, SHUFFLE_QUEUE,
                    selected_index, should_exit, appVars, playVars, decision >>

\* The match on key.code while the popup is open.
PopupKey(key) ==
    /\ UNCHANGED << AUTO_PLAY_NEXT, SHUFFLE_QUEUE, selected_index,
                    should_exit, selected, decision >>
    /\ CASE key[1] = "Esc" ->
              /\ show_popup' = FALSE
              /\ user_input' = clear_input_text(user_input)
              /\ character_index' = reset_cursor(character_index)
              /\ UNCHANGED << pc, exit_status >>
         [] key[1] = "Char" ->
              IF is_char_boundary(user_input, character_index)
              THEN /\ user_input' =
                         StringInsert(user_input, character_index, key[2])
                   /\ character_index' =
                         move_cursor_right(user_input', character_index)
                   /\ UNCHANGED << pc, exit_status, show_popup >>
              ELSE \* String::insert panics off a character boundary
                   /\ pc' = "panicked"
                   /\ exit_status' = Some(PanicExitCode)
                   /\ UNCHANGED << show_popup, user_input, character_index >>
         [] key[1] = "Backspace" ->
              /\ user_input' = delete_char_text(user_input, character_index)
              /\ character_index' =
                    delete_char_index(user_input, character_index)
              /\ UNCHANGED << pc, exit_status, show_popup >>
         [] key[1] = "Left" ->
              /\ character_index' =
                    move_cursor_left(user_input, character_index)
              /\ UNCHANGED << pc, exit_status, show_popup, user_input >>
         [] key[1] = "Right" ->
              /\ character_index' =
                    move_cursor_right(user_input, character_index)
              /\ UNCHANGED << pc, exit_status, show_popup, user_input >>
         [] key[1] = "Home" ->
              /\ character_index' = reset_cursor(character_index)
              /\ UNCHANGED << pc, exit_status, show_popup, user_input >>
         [] key[1] = "End" ->
              /\ character_index' = Len(user_input)
              /\ UNCHANGED << pc, exit_status, show_popup, user_input >>
         [] OTHER ->
              UNCHANGED << pc, exit_status, show_popup, user_input,
                           character_index >>

\* The match on key.code while the popup is closed.
NormalKey(key) ==
    /\ UNCHANGED << exit_status, user_input, character_index >>
    /\ CASE key[1] = "Esc" ->
              /\ should_exit' = TRUE
              /\ pc' = "main"
              /\ decision' = "cancel"
              /\ UNCHANGED << AUTO_PLAY_NEXT, SHUFFLE_QUEUE, selected_index,
                              selected, show_popup >>
         [] key[1] = "Up" ->
              /\ selected' = CursorUp(selected, Len(movies))
              /\ UNCHANGED << pc, AUTO_PLAY_NEXT, SHUFFLE_QUEUE,
                              selected_index, should_exit, show_popup,
                              decision >>
         [] key[1] = "Down" ->
              /\ selected' = CursorDown(selected, Len(movies))
              /\ UNCHANGED << pc, AUTO_PLAY_NEXT, SHUFFLE_QUEUE,
                              selected_index, should_exit, show_popup,
                              decision >>
         [] key[1] = "Enter" ->
              /\ \E c \in ConfirmChoices(selected, Len(movies), SHUFFLE_QUEUE) :
                    /\ selected_index' = Some(c[1])
                    /\ SHUFFLE_QUEUE' = c[2]
              /\ pc' = "main"
              /\ decision' = "confirm"
              /\ UNCHANGED << AUTO_PLAY_NEXT, should_exit, selected,
                              show_popup >>
         [] key = <<"Char", "n">> ->
              /\ AUTO_PLAY_NEXT' =
                    toggle_auto_play_next(AUTO_PLAY_NEXT, SHUFFLE_QUEUE)[1]
              /\ SHUFFLE_QUEUE' =
                    toggle_auto_play_next(AUTO_PLAY_NEXT, SHUFFLE_QUEUE)[2]
              /\ UNCHANGED << pc, selected_index, should_exit,
                              selected, show_popup, decision >>
         [] key = <<"Char", "s">> ->
              /\ AUTO_PLAY_NEXT' =
                    toggle_shuffle_queue(AUTO_PLAY_NEXT, SHUFFLE_QUEUE)[1]
              /\ SHUFFLE_QUEUE' =
                    toggle_shuffle_queue(AUTO_PLAY_NEXT, SHUFFLE_QUEUE)[2]
              /\ UNCHANGED << pc, selected_index, should_exit,
                              selected, show_popup, decision >>
         [] key = <<"Char", " ">> ->
              /\ show_popup' = ~show_popup
              /\ UNCHANGED << pc, AUTO_PLAY_NEXT, SHUFFLE_QUEUE,
                              selected_index, should_exit, selected,
                              decision >>
         [] OTHER ->
              UNCHANGED << pc, AUTO_PLAY_NEXT, SHUFFLE_QUEUE, selected_index,
                           should_exit, selected, show_popup, decision >>

\* The events the model delivers: a press of each key, and one key event of
\* another kind (a release).
KeyEvents == {<<"Press", key>> : key \in Keys} \cup {<<"Release", <<"Tab", "">>>>}

\* The overlay text is capped at MaxInput characters: a character key that
\* would make it longer is not delivered.
WithinCap(key) ==
    \/ ~show_popup
    \/ key[1] # "Char"
    \/ Len(user_input) < MaxInput
    \/ ~is_char_boundary(user_input, character_index)

\* poll returned true and an Event::Key was read.  Anything but a Press is
\* skipped with `continue` and leaves the clock alone; it arrives at the
\* start or at the end of the wait.  A Press rearms the clock and is then
\* dispatched on show_popup.  With `track` set the step also keeps the
\* history userShuffle of the user's toggle-shuffle presses.
KeyStep(track) ==
    /\ pc = "app"
    /\ ~IdleExpired(elapsed, show_popup)
    /\ \E ev \in KeyEvents :
          IF ev[1] # "Press"
          THEN /\ \E d \in {0, poll_timeout(elapsed)} :
                     /\ elapsed' = elapsed + d
                     /\ sincePress' = sincePress + d
               /\ UNCHANGED << pc, exit_status, AUTO_PLAY_NEXT, SHUFFLE_QUEUE,
                               selected_index, should_exit, appVars,
                               decision, userShuffle >>
          ELSE /\ WithinCap(ev[2])
               /\ userShuffle' = IF track /\ ~show_popup
                                    /\ ev[2] = <<"Char", "s">>
                                 THEN ~userShuffle
                                 ELSE userShuffle
               /\ elapsed' = ElapsedAfterPress(ev[2], show_popup, elapsed)
               /\ sincePress' = 0
               /\ IF show_popup THEN PopupKey(ev[2]) ELSE NormalKey(ev[2])
    /\ UNCHANGED << movies, playVars, scanVars, infoVars, notified >>

KeyEvent == KeyStep(FALSE)

KeyEventTracked == KeyStep(TRUE)

\* ------------------------------------------------------- main: after app
\* Variant: the exit request is dropped and the loop goes on.
MainExit_NoBreak ==
    /\ UNCHANGED << userShuffle, scanVars, infoVars, notified >>
    /\ pc = "main"
    /\ should_exit
    /\ pc' = "run_app"
    /\ should_exit' = FALSE
    /\ UNCHANGED << exit_status, movies, AUTO_PLAY_NEXT, SHUFFLE_QUEUE,
                    selected_index, appVars, elapsed, playVars, sincePress,
                    decision >>

\* should_exit is set: break out of the loop and return Ok(()).
MainExit ==
    /\ UNCHANGED << userShuffle, scanVars, infoVars, notified >>
    /\ pc = "main"
    /\ should_exit
    /\ pc' = "exited"
    /\ exit_status' = Some(0)
    /\ UNCHANGED << movies, AUTO_PLAY_NEXT, SHUFFLE_QUEUE, selected_index,
                    should_exit, appVars, elapsed, playVars, sincePress,
                    decision >>

\* &movies[start_index..] panics when start_index > movies.len(); with
\* start_index = movies.len() both slices are taken without complaint.
SlicePanics(m, start) == start > Len(m)

\* play_movies_from_index(movies, idx, sh) from its entry to the head of the
\* for loop: return Ok(()) at once on an empty catalog, else build the
\* queue (or panic in the slice of the sequential branch).
EnterPlay(idx, sh) ==
    /\ start_index' = idx
    /\ shuffle' = sh
    /\ pos' = 1
    /\ played' = << >>
    /\ codes' = << >>
    /\ IF movies = << >>
       THEN /\ movies_to_play' = << >>
            /\ pc' = "run_app"
            /\ UNCHANGED exit_status
       ELSE IF ~sh /\ SlicePanics(movies, idx)
       THEN /\ movies_to_play' = << >>
            /\ pc' = "panicked"
            /\ exit_status' = Some(PanicExitCode)
       ELSE /\ movies_to_play' \in Queues(movies, idx, sh)
            /\ pc' = "play"
            /\ UNCHANGED exit_status

\* Variant: the stored index is read but not taken out of the cell.
MainPlay_NoTake ==
    /\ UNCHANGED << userShuffle, scanVars, infoVars, notified >>
    /\ pc = "main"
    /\ ~should_exit
    /\ UNCHANGED selected_index
    /\ IF selected_index # None
       THEN EnterPlay(selected_index[1], SHUFFLE_QUEUE)
       ELSE /\ pc' = "run_app"
            /\ UNCHANGED << exit_status, playVars >>
    /\ selected' = 0
    /\ show_popup' = FALSE
    /\ user_input' = << >>
    /\ character_index' = 0
    /\ elapsed' = 0
    /\ sincePress' = 0
    /\ UNCHANGED << movies, AUTO_PLAY_NEXT, SHUFFLE_QUEUE, should_exit,
                    decision >>

\* Otherwise take() the index, load the shuffle flag and, if an index was
\* stored, call play_movies_from_index, which builds its queue and enters
\* the for loop.  The AppState and the clock of the session that returned
\* no longer exist.
MainPlay ==
    /\ UNCHANGED << userShuffle, scanVars, infoVars, notified >>
    /\ pc = "main"
    /\ ~should_exit
    /\ selected_index' = None
    /\ IF selected_index # None
       THEN EnterPlay(selected_index[1], SHUFFLE_QUEUE)
       ELSE /\ pc' = "run_app"
            /\ UNCHANGED << exit_status, playVars >>
    /\ selected' = 0
    /\ show_popup' = FALSE
    /\ user_input' = << >>
    /\ character_index' = 0
    /\ elapsed' = 0
    /\ sincePress' = 0
    /\ UNCHANGED << movies, AUTO_PLAY_NEXT, SHUFFLE_QUEUE, should_exit,
                    decision >>

\* ------------------------------------------------ play_movies_from_index
\* status.code().unwrap_or(1)
ExitCode(status) == unwrap_or(status, 1)

\* Variant: the exit code is not looked at.
Continues_IgnoreExit(exit_code, auto_play_next) == auto_play_next

\* Variant: the autoplay flag is not looked at.
Continues_IgnoreAuto(exit_code, auto_play_next) == exit_code = 0

\* After the player returned: TRUE iff the for loop goes on to the next
\* entry (if there is one).
Continues(exit_code, auto_play_next) ==
    exit_code = 0 /\ auto_play_next

\* The requests of one watch notification: none when API_URL is not set,
\* else one POST for each of the candidate keys, each of which can fail.
NotifyOutcomes(api_url_set) ==
    IF api_url_set THEN [1..NumCandidates -> {"ok", "err"}] ELSE { << >> }

NotifyResult(outcomes) ==
    IF Len(outcomes) = 0 THEN "off"
    ELSE IF \E k \in 1..Len(outcomes) : outcomes[k] = "err" THEN "err"
    ELSE "ok"

\* Variant: a failed request ends the playback.
NotifyAborts_OnError(outcomes) == NotifyResult(outcomes) = "err"

\* `let _ = http.post(..).send()`: the Result of every request is dropped.
NotifyAborts(outcomes) == FALSE

\* One pass of the for loop up to the start of the player: the watch
\* notification, then Command::new("mpv")...status(): the entry is handed to
\* the player, or the spawn fails and expect() panics.
PlayerInvoke ==
    /\ UNCHANGED << userShuffle, scanVars, infoVars >>
    /\ pc = "play"
    /\ \E api_url_set \in BOOLEAN :
       \E outcomes \in NotifyOutcomes(api_url_set) :
          /\ notified' = NotifyResult(outcomes)
          /\ IF NotifyAborts(outcomes)
             THEN /\ pc' = "run_app"
                  /\ UNCHANGED << exit_status, played >>
             ELSE \E spawned \in BOOLEAN :
                     IF spawned
                     THEN /\ played' = Append(played, movies_to_play[pos])
                          /\ pc' = "mpv"
                          /\ UNCHANGED exit_status
                     ELSE /\ pc' = "panicked"
                          /\ exit_status' = Some(PanicExitCode)
                          /\ UNCHANGED played
    /\ UNCHANGED << movies, AUTO_PLAY_NEXT, SHUFFLE_QUEUE, selected_index,
                    should_exit, appVars, elapsed, start_index, shuffle,
                    movies_to_play, pos, codes, sincePress, decision >>

\* The player process ended: the continuation policy of the for loop.
PlayerExit ==
    /\ UNCHANGED << userShuffle, scanVars, infoVars, notified >>
    /\ pc = "mpv"
    /\ \E status \in ExitStatuses :
          /\ codes' = Append(codes, ExitCode(status))
          /\ IF Continues(ExitCode(status), AUTO_PLAY_NEXT)
                /\ pos < Len(movies_to_play)
             THEN /\ pos' = pos + 1
                  /\ pc' = "play"
             ELSE /\ pc' = "run_app"
                  /\ UNCHANGED pos
    /\ UNCHANGED << exit_status, movies, AUTO_PLAY_NEXT, SHUFFLE_QUEUE,
                    selected_index, should_exit, appVars, elapsed,
                    start_index, shuffle, movies_to_play, played,
                    sincePress, decision >>

Next ==
    \/ MainStart
    \/ AppStart
    \/ IdleTimeout
    \/ PollTimeout
    \/ KeyEvent
    \/ MainExit
    \/ MainPlay
    \/ PlayerInvoke
    \/ PlayerExit

Spec == Init /\ [][Next]_vars

\* The same program with the history of the user's shuffle presses kept.
ToggleNext ==
    \/ MainStart
    \/ AppStart
    \/ IdleTimeout
    \/ PollTimeout
    \/ KeyEventTracked
    \/ MainExit
    \/ MainPlay
    \/ PlayerInvoke
    \/ PlayerExit

ToggleSpec == Init /\ [][ToggleNext]_vars

\* The loop of app keeps running and time keeps passing: an empty poll and
\* the idle check are taken whenever they stay possible; main goes on after
\* app has returned.
LiveSpec ==
    /\ Init
    /\ [][Next]_vars
    /\ WF_vars(PollTimeout)
    /\ WF_vars(IdleTimeout)
    /\ WF_vars(MainExit)
    /\ WF_vars(AppStart)

\* ------------------------------------- the queue builder called directly
\* play_movies_from_index as a function of its arguments: any catalog, any
\* start_index up to one past movies.len() + 1, either mode.
QueueInit ==
    /\ movies \in {Catalog(n) : n \in 0..MaxMovies}
    /\ pc = "call"
    /\ exit_status = None
    /\ AUTO_PLAY_NEXT \in BOOLEAN
    /\ SHUFFLE_QUEUE = FALSE
    /\ selected_index = None
    /\ should_exit = FALSE
    /\ selected = 0
    /\ show_popup = FALSE
    /\ user_input = << >>
    /\ character_index = 0
    /\ elapsed = 0
    /\ start_index \in 0..(Len(movies) + 1)
    /\ shuffle \in BOOLEAN
    /\ movies_to_play = << >>
    /\ pos = 1
    /\ played = << >>
    /\ codes = << >>
    /\ sincePress = 0
    /\ decision = "none"
    /\ userShuffle = FALSE
    /\ ScanIdle
    /\ InfoIdle
    /\ notified = "none"

PlayCall ==
    /\ UNCHANGED << userShuffle, scanVars, infoVars, notified >>
    /\ pc = "call"
    /\ EnterPlay(start_index, shuffle)
    /\ UNCHANGED << movies, AUTO_PLAY_NEXT, SHUFFLE_QUEUE, selected_index,
                    should_exit, appVars, elapsed, sincePress, decision >>

QueueNext ==
    \/ PlayCall
    \/ PlayerInvoke
    \/ PlayerExit

QueueSpec == QueueInit /\ [][QueueNext]_vars

\* ------------------------------------------------- the scanner at start
\* main from its first line: ../movies is of any kind and holds any tree.
ScanInit ==
    /\ root \in RootKinds
    /\ tree \in (IF root = "dir" THEN Trees ELSE { {} })
    /\ scan = None
    /\ rescan = None
    /\ movies = << >>
    /\ pc = "load"
    /\ exit_status = None
    /\ AUTO_PLAY_NEXT = TRUE
    /\ SHUFFLE_QUEUE = FALSE
    /\ selected_index = None
    /\ should_exit = FALSE
    /\ selected = 0
    /\ show_popup = FALSE
    /\ user_input = << >>
    /\ character_index = 0
    /\ elapsed = 0
    /\ start_index = 0
    /\ shuffle = FALSE
    /\ movies_to_play = << >>
    /\ pos = 1
    /\ played = << >>
    /\ codes = << >>
    /\ sincePress = 0
    /\ decision = "none"
    /\ userShuffle = FALSE
    /\ InfoIdle
    /\ notified = "none"

\* let (movies, movie_info_map) = load_movies()?  An Err ends main, and the
\* process exits with the code of a failed main.  The remote service has a
\* record or none for each entry of the catalog.
LoadMovies ==
    /\ pc = "load"
    /\ \E r \in load_movies(root, tree) :
          /\ scan' = Some(r)
          /\ IF r.ok
             THEN /\ movies' = r.movies
                  /\ info_map' \in InfoMaps(r.movies)
                  /\ pc' = "start"
                  /\ UNCHANGED exit_status
             ELSE /\ pc' = "exited"
                  /\ exit_status' = Some(ErrExitCode)
                  /\ UNCHANGED << movies, info_map >>
    /\ UNCHANGED << AUTO_PLAY_NEXT, SHUFFLE_QUEUE, selected_index,
                    should_exit, appVars, elapsed, playVars, sincePress,
                    decision, userShuffle, root, tree, rescan, probe_of,
                    movie_info_cache, probes, shown, notified >>

\* The program is started once more over the same ../movies.
Rescan ==
    /\ scan # None
    /\ rescan = None
    /\ \E r \in load_movies(root, tree) : rescan' = Some(r)
    /\ UNCHANGED << pc, exit_status, movies, AUTO_PLAY_NEXT, SHUFFLE_QUEUE,
                    selected_index, should_exit, appVars, elapsed, playVars,
                    sincePress, decision, userShuffle, root, tree, scan,
                    infoVars, notified >>

ScanNext ==
    \/ LoadMovies
    \/ MainStart
    \/ Rescan

ScanSpec == ScanInit /\ [][ScanNext]_vars

\* ------------------------------------------- the info panel of a session
\* Sessions of app over a catalog for which the remote service has a record
\* or none for each entry and the probe has one outcome for each file.
InfoInit ==
    /\ movies \in {Catalog(n) : n \in 1..MaxMovies}
    /\ info_map \in InfoMaps(movies)
    /\ probe_of \in [Entries(movies) -> ProbeOutcomes]
    /\ movie_info_cache = info_map
    /\ probes = << >>
    /\ shown = None
    /\ pc = "run_app"
    /\ exit_status = None
    /\ AUTO_PLAY_NEXT = TRUE
    /\ SHUFFLE_QUEUE = FALSE
    /\ selected_index = None
    /\ should_exit = FALSE
    /\ selected = 0
    /\ show_popup = FALSE
    /\ user_input = << >>
    /\ character_index = 0
    /\ elapsed = 0
    /\ start_index = 0
    /\ shuffle = FALSE
    /\ movies_to_play = << >>
    /\ pos = 1
    /\ played = << >>
    /\ codes = << >>
    /\ sincePress = 0
    /\ decision = "none"
    /\ userShuffle = FALSE
    /\ ScanIdle
    /\ notified = "none"

\* Variant: the probe runs at every display.
needs_probe_Always(cache, key) == TRUE

\* entry(key).or_insert_with(..): the closure runs only for a vacant entry.
needs_probe(cache, key) == key \notin DOMAIN cache

\* terminal.draw(render): the info panel of the entry under the cursor; the
\* "Random" row has none.
Render ==
    /\ pc = "app"
    /\ pc' = "drawn"
    /\ IF selected < Len(movies)
       THEN LET key == At(movies, selected)
                probe == needs_probe(movie_info_cache, key)
            IN  /\ movie_info_cache' =
                      IF probe
                      THEN [k \in DOMAIN movie_info_cache \cup {key} |->
                              IF k = key
                              THEN get_movie_info(probe_of[key])
                              ELSE movie_info_cache[k]]
                      ELSE movie_info_cache
                /\ probes' = IF probe THEN Append(probes, key) ELSE probes
                /\ shown' = Some(movie_info_cache'[key])
       ELSE /\ shown' = None
            /\ UNCHANGED << movie_info_cache, probes >>
    /\ UNCHANGED << exit_status, movies, AUTO_PLAY_NEXT, SHUFFLE_QUEUE,
                    selected_index, should_exit, appVars, elapsed, playVars,
                    sincePress, decision, userShuffle, scanVars, info_map,
                    probe_of, notified >>

\* The key read after the draw moves the cursor, or it is Enter and app
\* returns; the playback that follows is left out here, and main calls app
\* again.
BrowseKey ==
    /\ pc = "drawn"
    /\ \E code \in {"Up", "Down", "Enter"} :
          /\ selected' = IF code = "Up" THEN CursorUp(selected, Len(movies))
                         ELSE IF code = "Down"
                              THEN CursorDown(selected, Len(movies))
                         ELSE selected
          /\ pc' = IF code = "Enter" THEN "run_app" ELSE "app"
    /\ UNCHANGED << exit_status, movies, AUTO_PLAY_NEXT, SHUFFLE_QUEUE,
                    selected_index, should_exit, show_popup, user_input,
                    character_index, elapsed, playVars, sincePress,
                    decision, userShuffle, scanVars, infoVars, notified >>

InfoNext ==
    \/ AppStart
    \/ Render
    \/ BrowseKey

InfoSpec == InfoInit /\ [][InfoNext]_vars

TypeOK ==
    /\ pc \in {"start", "call", "load", "run_app", "app", "drawn", "main",
               "play", "mpv", "exited", "panicked"}
    /\ selected \in 0..MaxMovies
    /\ elapsed \in 0..TimeoutMs

\* ================================================================ claims
N == Len(movies)

Range(q) == { q[k] : k \in 1..Len(q) }

Injective(q) == \A i, j \in 1..Len(q) : i # j => q[i] # q[j]

QueueBuilt == pc \in {"play", "mpv"} \/ (pc = "run_app" /\ played # << >>)

PlaybackReturned == pc = "run_app" /\ played # << >>

\* C1: a queue built with shuffle_order = false from start_index i is the
\* catalog rotated so that entry i is first: position k holds catalog entry
\* (i + k) mod n, every entry exactly once.
C1_SequentialRotation ==
    (QueueBuilt /\ ~shuffle) =>
        /\ start_index \in 0..(N - 1)
        /\ Len(movies_to_play) = N
        /\ \A k \in 0..(N - 1) :
              movies_to_play[k + 1] = At(movies, (start_index + k) % N)
        /\ Injective(movies_to_play)
        /\ Range(movies_to_play) = Range(movies)

C1_Witness ==
    /\ pc = "play"
    /\ ~shuffle
    /\ N = 3
    /\ start_index = 2
    /\ movies_to_play = << Entry(3), Entry(1), Entry(2) >>

\* C2: a queue built with shuffle_order = true from start_index i has length
\* n, starts with catalog[i], and its other n-1 elements are a permutation of
\* the catalog without entry i, whatever the shuffle produced.
C2_ShufflePinnedHead ==
    (QueueBuilt /\ shuffle) =>
        /\ start_index \in 0..(N - 1)
        /\ Len(movies_to_play) = N
        /\ movies_to_play[1] = At(movies, start_index)
        /\ Injective(movies_to_play)
        /\ { movies_to_play[k] : k \in 2..N }
              = Range(movies) \ { At(movies, start_index) }

C2_Witness ==
    /\ pc = "play"
    /\ shuffle
    /\ N = 3
    /\ start_index = 1
    /\ movies_to_play = << Entry(2), Entry(3), Entry(1) >>

\* C3: Enter while browsing ends the session with a play decision: on the
\* random slot (cursor = n) some index below n with shuffle true, otherwise
\* the cursor with the current shuffle toggle; main then calls the playback
\* driver with exactly the stored pair.
C3_ConfirmDecision ==
    /\ [][ (pc = "app" /\ decision' = "confirm") =>
             /\ ~show_popup
             /\ pc' = "main"
             /\ ~should_exit'
             /\ selected_index' # None
             /\ IF selected = N
                THEN /\ selected_index'[1] \in 0..(N - 1)
                     /\ SHUFFLE_QUEUE' = TRUE
                ELSE /\ selected_index'[1] = selected
                     /\ SHUFFLE_QUEUE' = SHUFFLE_QUEUE ]_vars
    /\ [][ (pc = "main" /\ decision = "confirm" /\ pc' # "main") =>
             /\ pc' = "play"
             /\ << start_index', shuffle' >>
                   = << selected_index[1], SHUFFLE_QUEUE >> ]_vars

C3_Witness ==
    /\ pc = "main"
    /\ decision = "confirm"
    /\ selected = N
    /\ N = 3
    /\ selected_index = Some(1)
    /\ SHUFFLE_QUEUE

\* C4: once the player has exited non-zero (or without a code) for the entry
\* at position k, nothing after position k of that queue is handed to the
\* player, whatever the autoplay flag, and control is back at the selection
\* screen.
C4_NonZeroExitHalts ==
    /\ Len(codes) <= Len(played)
    /\ played = SubSeq(movies_to_play, 1, Len(played))
    /\ \A k \in 1..Len(codes) :
          codes[k] # 0 => (Len(played) = k /\ pc = "run_app")

C4_Witness ==
    /\ pc = "run_app"
    /\ AUTO_PLAY_NEXT
    /\ Len(movies_to_play) = 3
    /\ codes = << 0, 1 >>
    /\ Len(played) = 2

\* C5: after an exit with code 0 the next entry is invoked iff autoplay-next
\* is set and an entry remains; so with autoplay-next set and only zero
\* exits the whole queue is played once in queue order, and with
\* autoplay-next clear exactly one entry is played.
C5_AutoplayContinuation ==
    /\ [][ (pc = "mpv" /\ pc' # "mpv" /\ codes'[Len(codes')] = 0) =>
             (pc' = "play" <=> (AUTO_PLAY_NEXT /\ pos < Len(movies_to_play)))
         ]_vars
    /\ [][ (pc = "play" /\ pc' = "mpv") =>
             played' = Append(played, movies_to_play[Len(played) + 1]) ]_vars
    /\ []( (PlaybackReturned /\ AUTO_PLAY_NEXT /\ \A k \in 1..Len(codes) : codes[k] = 0)
              => played = movies_to_play )
    /\ []( (PlaybackReturned /\ ~AUTO_PLAY_NEXT) => Len(played) = 1 )

C5_Witness ==
    /\ pc = "run_app"
    /\ AUTO_PLAY_NEXT
    /\ codes = << 0, 0, 0 >>
    /\ played = movies_to_play
    /\ Len(played) = 3

\* C6: while browsing (overlay closed) a non-empty catalog, either a key
\* press arrives or the session ends by the idle timeout; a session ended by
\* the idle timeout carries shuffle = true and a start index below n,
\* whatever the cursor was.
C6_IdleTimeoutDecides ==
    /\ (pc = "app" /\ ~show_popup /\ sincePress > 0)
          ~> (sincePress = 0 \/ (pc = "main" /\ decision = "idle"))
    /\ []( (pc = "main" /\ decision = "idle") =>
              /\ sincePress >= TimeoutMs
              /\ SHUFFLE_QUEUE
              /\ ~should_exit
              /\ selected_index \in { Some(i) : i \in 0..(N - 1) } )

C6_Witness ==
    /\ pc = "main"
    /\ decision = "idle"
    /\ ~show_popup
    /\ N = 3
    /\ selected = 3
    /\ selected_index = Some(2)
    /\ SHUFFLE_QUEUE

\* C7: while the overlay is open the session never ends with a play
\* decision: no step leads from OverlayEditing to Deciding.
C7_NoDecisionInOverlay ==
    [][ (pc = "app" /\ show_popup) => ~(pc' = "main" /\ selected_index' # None)
      ]_vars

\* C8: every key press, in either mode and bound or not, rearms the idle
\* clock: the clock always reads the time since the last key press (or the
\* session start), and the idle timeout fires only after a full threshold
\* without a key press.
C8_AnyKeyRearms ==
    /\ pc = "app" => elapsed = sincePress
    /\ decision = "idle" /\ pc = "main" => sincePress >= TimeoutMs

C8_Witness ==
    /\ pc = "main"
    /\ decision = "idle"
    /\ show_popup
    /\ user_input # << >>
    /\ sincePress = TimeoutMs

\* C9: the cursor stays in [0, n]; move-down maps c to (c+1) mod (n+1) and
\* move-up maps c to (c-1) mod (n+1), and the cursor changes in no other way
\* during a session.
C9_CursorWraps ==
    /\ []( pc \in {"app", "main"} =>
              /\ selected \in 0..N
              /\ CursorDown(selected, N) = (selected + 1) % (N + 1)
              /\ CursorUp(selected, N) = (selected + N) % (N + 1) )
    /\ [][ (pc = "app" /\ pc' = "app" /\ selected' # selected) =>
              \/ selected' = (selected + 1) % (N + 1)
              \/ selected' = (selected + N) % (N + 1) ]_vars

C9_Witness ==
    /\ pc = "app"
    /\ N = 3
    /\ selected = N
    /\ sincePress = 0
    /\ elapsed = 0

\* C10: Esc while browsing requests the exit: from then on the player is not
\* invoked, no selection session is started, and the process terminates with
\* exit code 0.
C10_CancelExits ==
    /\ [][ (pc = "app" /\ decision' = "cancel") =>
              (~show_popup /\ should_exit' /\ pc' = "main") ]_vars
    /\ []( decision = "cancel" =>
              /\ should_exit
              /\ pc \in {"main", "exited"}
              /\ pc = "exited" => exit_status = Some(0) )
    /\ (decision = "cancel") ~> (pc = "exited" /\ exit_status = Some(0))

C10_Witness ==
    /\ pc = "exited"
    /\ decision = "cancel"
    /\ exit_status = Some(0)
    /\ N = 3

C13_EmptyCatalogExits ==
    movies = << >> =>
        /\ pc \in {"start", "exited"}
        /\ pc = "exited" => exit_status = Some(0)
        /\ selected_index = None
        /\ decision = "none"
        /\ played = << >>
        /\ movies_to_play = << >>

C13_Witness ==
    /\ movies = << >>
    /\ pc = "exited"
    /\ exit_status = Some(0)

\* C14: called in sequential mode on a non-empty catalog with a start_index
\* outside [0, n), n included, the queue builder rejects the call with an
\* error and plays no entry.
C14_SequentialIndexRejected ==
    (pc # "call" /\ N >= 1 /\ ~shuffle /\ start_index \notin 0..(N - 1)) =>
        /\ pc = "panicked"
        /\ movies_to_play = << >>
        /\ played = << >>

\* C12: at every confirm on a real catalog entry the shuffle value of the
\* decision is the toggle as the user's toggle-shuffle presses left it (off
\* at first, flipped once per press); a shuffle forced by an earlier random
\* pick or idle timeout does not alter it.
C12_ShuffleReflectsUser ==
    (pc = "main" /\ decision = "confirm" /\ selected < N) =>
        SHUFFLE_QUEUE = userShuffle

\* Text s with the character ch put in front of character position k.
InsertedAt(s, k, ch) == SubSeq(s, 1, k) \o <<ch>> \o SubSeq(s, k + 1, Len(s))

\* Text s without the character at (0-based) character position k.
RemovedAt(s, k) == SubSeq(s, 1, k) \o SubSeq(s, k + 2, Len(s))

Editing == pc = "app" /\ show_popup

\* C15: a character key in the overlay inserts that character at the overlay
\* cursor, counted in characters, and advances the cursor by one, the text
\* before and after the insertion point staying as it was; this for every
\* reachable text and cursor, multi-byte characters included.  (A character
\* key is the only key that makes the text longer; its other outcome in the
\* code is the panic of String::insert.)
C15_CharInsertsAtCursor ==
    [][ Editing =>
          /\ pc' # "panicked"
          /\ Len(user_input') > Len(user_input) =>
                /\ \E ch \in KeyChars :
                      user_input' = InsertedAt(user_input, character_index, ch)
                /\ character_index' = character_index + 1 ]_vars

C17_OverlayCursorInRange ==
    /\ []( /\ character_index \in 0..Len(user_input)
           /\ move_cursor_left(user_input, character_index) =
                 IF character_index = 0 THEN 0 ELSE character_index - 1
           /\ move_cursor_right(user_input, character_index) =
                 IF character_index = Len(user_input)
                 THEN Len(user_input)
                 ELSE character_index + 1 )
    /\ [][ (Editing /\ show_popup' /\ pc' = "app"
              /\ Len(user_input') = Len(user_input)) =>
             /\ user_input' = user_input
             /\ character_index' \in
                   { character_index, 0, Len(user_input),
                     move_cursor_left(user_input, character_index),
                     move_cursor_right(user_input, character_index) } ]_vars

C17_Witness ==
    /\ Editing
    /\ Len(user_input) = 1
    /\ character_index = 0
    /\ sincePress = 0

\* C18: Esc in the overlay closes it, clears the overlay text and returns to
\* browsing; cursor and both toggles are as before, the application does not
\* exit and no play decision is made.
C18_OverlayCancel ==
    [][ (Editing /\ ~show_popup') =>
          /\ pc' = "app"
          /\ user_input' = << >>
          /\ character_index' = 0
          /\ selected' = selected
          /\ AUTO_PLAY_NEXT' = AUTO_PLAY_NEXT
          /\ SHUFFLE_QUEUE' = SHUFFLE_QUEUE
          /\ ~should_exit'
          /\ selected_index' = None
          /\ decision' = "none" ]_vars

\* An overlay with text in it, over a moved cursor and changed toggles,
\* where Esc has something to clear and something to keep.
C18_Witness ==
    /\ Editing
    /\ user_input # << >>
    /\ character_index = 0
    /\ selected = 2
    /\ ~AUTO_PLAY_NEXT
    /\ SHUFFLE_QUEUE

\* C19: whatever happened before in the session, open-overlay while browsing
\* enters the overlay with empty text and the overlay cursor at 0.
C19_OverlayOpensEmpty ==
    /\ [][ (pc = "app" /\ ~show_popup /\ show_popup') =>
             /\ pc' = "app"
             /\ user_input' = << >>
             /\ character_index' = 0 ]_vars
    /\ []( (pc = "app" /\ ~show_popup) =>
              (user_input = << >> /\ character_index = 0) )

C19_Witness ==
    /\ Editing
    /\ user_input = << >>
    /\ character_index = 0
    /\ sincePress = 0
    /\ selected = 1
    /\ SHUFFLE_QUEUE

\* C20: while browsing, toggle-autoplay flips only the autoplay-next flag and
\* toggle-shuffle flips only the shuffle flag; the other flag, the cursor and
\* the overlay are as before and the session goes on browsing.
C20_TogglesFlipOneFlag ==
    /\ [][ AUTO_PLAY_NEXT' # AUTO_PLAY_NEXT =>
             /\ pc = "app" /\ ~show_popup
             /\ pc' = "app" /\ ~show_popup'
             /\ SHUFFLE_QUEUE' = SHUFFLE_QUEUE
             /\ selected' = selected
             /\ user_input' = user_input
             /\ character_index' = character_index
             /\ decision' = decision ]_vars
    /\ [][ (pc = "app" /\ pc' = "app" /\ SHUFFLE_QUEUE' # SHUFFLE_QUEUE) =>
             /\ ~show_popup /\ ~show_popup'
             /\ AUTO_PLAY_NEXT' = AUTO_PLAY_NEXT
             /\ selected' = selected
             /\ user_input' = user_input
             /\ character_index' = character_index
             /\ decision' = decision ]_vars

C20_Witness ==
    /\ pc = "app"
    /\ ~show_popup
    /\ ~AUTO_PLAY_NEXT
    /\ SHUFFLE_QUEUE
    /\ selected = 1
    /\ sincePress = 0

\* C21: the MovieInfo shown for an entry is the merge of its remote record
\* and its probe result: every descriptive field, runtime included, is the
\* remote value if there is one, else the probe's, else absent, and codec,
\* resolution and file size are the probe's whether or not the entry has a
\* remote record.
C21_ShownIsMerge ==
    (pc = "drawn" /\ selected < N) =>
        LET key == At(movies, selected)
            probe == get_movie_info(probe_of[key])
            remote == IF key \in DOMAIN info_map
                      THEN info_map[key]
                      ELSE MovieInfo(None, None, None, None, None)
            or(a, b) == IF a # None THEN a ELSE b
        IN  shown = Some(MovieInfo(or(remote.title, probe.title),
                                   or(remote.runtime, probe.runtime),
                                   probe.file_size,
                                   probe.codec,
                                   probe.resolution))

\* C22: when ../movies cannot be read (it is missing, is not a directory or
\* is unreadable) load_movies fails, no selection session is entered and the
\* process exits with a non-zero code; it is never taken for an empty
\* catalog.
C22_UnreadableRootFails ==
    root # "dir" =>
        /\ scan # None => ~scan[1].ok
        /\ pc \in {"load", "exited"}
        /\ pc = "exited" => exit_status \notin {None, Some(0)}

\* The name ends in '.' and a recognized extension in any letter case, with
\* something before the '.'.
EndsWithExt(name, e) ==
    /\ Len(name) > Len(e) + 1
    /\ name[Len(name) - Len(e)] = 46
    /\ to_lowercase(SubSeq(name, Len(name) - Len(e) + 1, Len(name))) = e

RecognizedFile(path) ==
    \E e \in VIDEO_EXTENSIONS : EndsWithExt(file_name(path), e)

ReservedName(name) == starts_with(name, APPLEDOUBLE_PREFIX)

BeneathReserved(path) == \E k \in 1..(Len(path) - 1) : ReservedName(path[k])

\* The catalog q holds each path of S once and nothing else.
HoldsExactly(q, S) ==
    /\ { q[k].path : k \in 1..Len(q) } = S
    /\ Len(q) = Cardinality(S)

Scanned == scan # None /\ scan[1].ok /\ root = "dir"

\* C23, as stated: the catalog holds exactly one entry for each file, at any
\* depth, with a recognized extension in any letter case, except the files
\* whose own name begins with "._" and the files beneath a directory whose
\* name begins with "._".
C23_CatalogOfTree_Stated ==
    Scanned =>
        HoldsExactly(scan[1].movies,
                     { f \in tree : /\ RecognizedFile(f)
                                    /\ ~ReservedName(file_name(f))
                                    /\ ~BeneathReserved(f) })

\* C23, amended: the catalog holds exactly one entry for each file, at any
\* depth, with a recognized extension in any letter case, except the files
\* whose own name begins with "._"; the name of a directory excludes
\* nothing.
C23_CatalogOfTree ==
    Scanned =>
        HoldsExactly(scan[1].movies,
                     { f \in tree : /\ RecognizedFile(f)
                                    /\ ~ReservedName(file_name(f)) })

C23_Witness ==
    /\ Scanned
    /\ tree = { <<Name_b_MKV>>, <<Name_dot_m_mp4>>,
                <<Name_dot_d, Name_m_mp4>> }
    /\ Len(scan[1].movies) = 2

\* C24: the order of the catalog is a function of the set of scanned paths:
\* two scans of the same tree return the same sequence, whatever the order
\* in which the file system enumerates the directories.
C24_OrderIsFunctionOfPaths ==
    (scan # None /\ rescan # None) => scan[1].movies = rescan[1].movies

\* C25: a player that cannot be started does not end the process: no pass of
\* the playback loop panics, the playback halts and the selection screen
\* comes back.
C25_SpawnFailureNonFatal ==
    [][pc = "play" => (pc' # "panicked" /\ exit_status' = None)]_vars

\* C26: the watch notification is best effort: whatever its requests come
\* to, the entry reached is handed to the player (unless the player cannot
\* be started), the queue stays as built, and the loop goes on to the next
\* entry exactly when the player returned 0, autoplay is on and an entry is
\* left.
C26_NotificationBestEffort ==
    [][ /\ (pc = "play" /\ pc' # "panicked") =>
              /\ pc' = "mpv"
              /\ played' = Append(played, movies_to_play[pos])
        /\ (pc \in {"play", "mpv"} /\ pc' \in {"play", "mpv"}) =>
              movies_to_play' = movies_to_play
        /\ pc = "mpv" =>
              ((pc' = "play") <=> /\ codes'[Len(codes')] = 0
                                  /\ AUTO_PLAY_NEXT
                                  /\ pos < Len(movies_to_play)) ]_vars

C26_Witness ==
    /\ pc = "mpv"
    /\ notified = "err"
    /\ Len(played) = 2
    /\ played = SubSeq(movies_to_play, 1, 2)

\* C27: over a catalog of length n >= 1 every start index the selection
\* screen leaves for main, and every one handed to play_movies_from_index,
\* is in 0..n-1.
C27_StartIndexInRange ==
    /\ selected_index # None => (N >= 1 /\ selected_index[1] \in 0..(N - 1))
    /\ pc \in {"play", "mpv"} => (N >= 1 /\ start_index \in 0..(N - 1))

C27_Witness ==
    /\ pc = "play"
    /\ decision = "idle"
    /\ N >= 2
    /\ start_index = N - 1

\* C28: within one session get_movie_info runs at most once for an entry and
\* only when the entry under the cursor has no cache record; a record, once
\* there, is neither replaced nor removed before the session ends, and it is
\* what every display of the entry shows.
C28_ProbeOncePerEntry ==
    [][ \A e \in Entries(movies) :
          LET Calls(q) == Cardinality({ k \in 1..Len(q) : q[k] = e })
          IN  /\ Calls(probes') <= 1
              /\ Calls(probes') > Calls(probes) =>
                    /\ pc = "app" /\ selected < N /\ e = At(movies, selected)
                    /\ e \notin DOMAIN movie_info_cache
                    /\ probes' = Append(probes, e)
              /\ (pc # "run_app" /\ e \in DOMAIN movie_info_cache) =>
                    /\ e \in DOMAIN movie_info_cache'
                    /\ movie_info_cache'[e] = movie_info_cache[e]
                    /\ Calls(probes') = Calls(probes)
              /\ (pc = "app" /\ pc' = "drawn" /\ selected < N
                    /\ e = At(movies, selected)) =>
                    /\ e \in DOMAIN movie_info_cache'
                    /\ shown' = Some(movie_info_cache'[e]) ]_vars

C28_Witness ==
    /\ pc = "drawn"
    /\ N >= 2
    /\ selected = 0
    /\ probes = << At(movies, 0), At(movies, 1) >>
    /\ shown = Some(get_movie_info(probe_of[At(movies, 0)]))

\* C29: while the overlay is open a key press changes neither the cursor of
\* the list nor the autoplay flag nor the shuffle flag, and it ends nothing:
\* app keeps running, no exit is requested and no index is chosen.
C29_OverlayKeysStayInOverlay ==
    [][ (Editing /\ sincePress' = 0) =>
           /\ pc' = "app"
           /\ selected' = selected
           /\ AUTO_PLAY_NEXT' = AUTO_PLAY_NEXT
           /\ SHUFFLE_QUEUE' = SHUFFLE_QUEUE
           /\ selected_index' = selected_index
           /\ should_exit' = should_exit ]_vars

====
